---- MODULE Spec2Model ----
(***************************************************************************)
(* Job lifecycle of the WhisperX transcription microservice.               *)
(*                                                                         *)
(* The model follows app/models/database.py (the SQLite job store) and     *)
(* app/api/v1/endpoints/jobs.py (upload, retry, cancel and the background  *)
(* task process_audio_job).                                                *)
(*                                                                         *)
(* Scheduling: the endpoint handlers are "async def" functions whose store *)
(* calls are synchronous, so a handler runs without interruption from its  *)
(* first store call to its return. The background task suspends once, at   *)
(* "await whisperx_service.transcribe_audio(...)": TaskStart runs up to the *)
(* await and TaskFinish after it. When an exception reaches the outer      *)
(* handler, its write is the step TaskExcept, which follows TaskFinish     *)
(* with no other step in between. The engine's output is what              *)
(* app/services/whisperx_service.py returns after _format_result.          *)
(*                                                                         *)
(* Environment: a store write may raise inside sqlite3 (locked database,   *)
(* disk error); the store catches it and returns False. Such faults are    *)
(* inputs of the write operations. Reads are taken not to fault.           *)
(*                                                                         *)
(* Specifications: Spec is the service with store faults, SpecNoFault the  *)
(* service without them, SpecStore the DatabaseManager called directly,    *)
(* SpecLegacy the read endpoints over a database file found at start,      *)
(* SpecList the listing endpoint over stores of many jobs, SpecMock the     *)
(* mock service of a DEBUG deployment and the metrics endpoints, SpecFrame *)
(* update_job_status called directly on a store of two jobs.               *)
(***************************************************************************)
EXTENDS Integers, Sequences, FiniteSets, TLC

(***************************************************************************)
(* Bounds of the model.                                                    *)
(***************************************************************************)
\* number of job ids the uploads may use
MaxJobs == 1
\* the clock (datetime.utcnow / time.time) takes the values 0..MaxTime
MaxTime == 1
\* number of store writes that raise inside sqlite3 in one behaviour
MaxFaults == 1
\* the listings ask for the pages 1..MaxPage
MaxPage == 3
\* direct calls of save_job_result stop once MaxRows speaker rows are stored
MaxRows == 2
\* direct calls of the mock service's process_audio stop after MaxCalls of them
MaxCalls == 4

(***************************************************************************)
(* Values.                                                                 *)
(***************************************************************************)
\* SQL NULL / Python None in a text column or a text field
NULL == "NULL"
\* SQL NULL in a REAL column
NullReal == -1
\* a key that a dict of the engine's output does not have
ABSENT == "ABSENT"
\* no result payload: the result_data column is NULL
NoResult == [kind |-> "null"]

JobIds == 1..MaxJobs

\* class JobStatus
PENDING == "pending"
PROCESSING == "processing"
COMPLETED == "completed"
FAILED == "failed"
CANCELLED == "cancelled"
JobStatus == {PENDING, PROCESSING, COMPLETED, FAILED, CANCELLED}

\* class ModelSize
ModelSize == {"tiny", "base", "small", "medium", "large", "large-v2"}

\* settings.ALLOWED_AUDIO_FORMATS
ALLOWED_AUDIO_FORMATS == {"mp3", "wav", "m4a", "flac", "ogg"}
\* settings.MAX_FILE_SIZE, in MiB
MAX_FILE_SIZE == 100

\* the confidence the code assigns to every result and every word, in tenths
DefaultConfidence == 8

\* dict.get(key, default): the default is used only when the key is missing;
\* a key that is present with the value None yields None. The numeric keys
\* (start, end, confidence) are present in every dict of the model.
Get(v, default) == IF v = ABSENT THEN default ELSE v

\* Python truthiness of an Optional[str]
Truthy(s) == s # NULL /\ s # ""

\* language or "en"
OrEn(language) == IF Truthy(language) THEN language ELSE "en"

(***************************************************************************)
(* The job store (DatabaseManager). A database value d has the three       *)
(* tables: d.jobs maps the primary key job_id to its row, the segment      *)
(* tables are sequences of rows in insertion (AUTOINCREMENT) order.        *)
(***************************************************************************)
EmptyDb == [jobs |-> << >>, speaker_segments |-> << >>, word_segments |-> << >>]

\* INSERT INTO jobs (job_id, filename, model_size, enable_diarization,
\* enable_alignment, language): the other columns take their defaults. Every
\* job_data of the model has the two flags.
NewJobRow(job_data, t) ==
    [job_id |-> job_data.job_id,
     status |-> PENDING,
     created_at |-> t,
     updated_at |-> t,
     filename |-> job_data.filename,
     model_size |-> Get(job_data.model_size, "large-v2"),
     enable_diarization |-> job_data.enable_diarization,
     enable_alignment |-> job_data.enable_alignment,
     language |-> Get(job_data.language, NULL),
     processing_time |-> NullReal,
     audio_duration |-> NullReal,
     confidence |-> NullReal,
     error_message |-> NULL,
     result_data |-> NoResult]

\* an INSERT OR REPLACE in the place of the INSERT
create_or_replace_job(d, job_data, t, fault) ==
    IF fault
    THEN [db |-> d, ok |-> FALSE]
    ELSE [db |-> [d EXCEPT !.jobs =
                     [k \in DOMAIN @ \cup {job_data.job_id} |->
                         IF k = job_data.job_id THEN NewJobRow(job_data, t) ELSE @[k]]],
          ok |-> TRUE]

\* create_job: the INSERT raises on a primary key that exists, and on a fault
create_job(d, job_data, t, fault) ==
    IF fault \/ job_data.job_id \in DOMAIN d.jobs
    THEN [db |-> d, ok |-> FALSE]
    ELSE [db |-> [d EXCEPT !.jobs = (job_data.job_id :> NewJobRow(job_data, t)) @@ @],
          ok |-> TRUE]

\* get_job: the row, or None
HasJob(d, job_id) == job_id \in DOMAIN d.jobs

\* the value None of a missing row
NoJob == [kind |-> "none"]

\* a get_job that answers a missing job_id with a blank pending row
get_job_or_blank(d, job_id) ==
    IF job_id \in DOMAIN d.jobs THEN d.jobs[job_id]
    ELSE [job_id |-> job_id, status |-> PENDING, created_at |-> 0, updated_at |-> 0,
          filename |-> [stem |-> "", ext |-> ""], model_size |-> "large-v2",
          enable_diarization |-> TRUE, enable_alignment |-> TRUE, language |-> NULL,
          processing_time |-> NullReal, audio_duration |-> NullReal,
          confidence |-> NullReal, error_message |-> NULL, result_data |-> NoResult]

\* get_job as the GET handler uses it: dict(zip(columns, row)), or None
get_job(d, job_id) == IF job_id \in DOMAIN d.jobs THEN d.jobs[job_id] ELSE NoJob

\* the job ids of the rows a status filter selects (None: all rows)
Matching(d, status) ==
    {k \in DOMAIN d.jobs : status = NULL \/ d.jobs[k].status = status}

\* the primary keys of the table in insertion order
IdSeq(d) ==
    LET top == IF DOMAIN d.jobs = {} THEN 0
               ELSE CHOOSE x \in DOMAIN d.jobs :
                       (x + 1) \notin DOMAIN d.jobs /\ \A y \in DOMAIN d.jobs : y <= x
    IN SelectSeq([i \in 1..top |-> i], LAMBDA k : k \in DOMAIN d.jobs)

Reverse(seq) == [i \in 1..Len(seq) |-> seq[Len(seq) + 1 - i]]

\* ORDER BY created_at DESC over the ids in ks; rows of equal created_at come
\* in insertion order. The sort starts from the latest insertion, which is
\* close to the order it produces.
OrderByCreatedDesc(d, ks) ==
    SortSeq(Reverse(SelectSeq(IdSeq(d), LAMBDA k : k \in ks)),
            LAMBDA x, y : \/ d.jobs[x].created_at > d.jobs[y].created_at
                          \/ d.jobs[x].created_at = d.jobs[y].created_at /\ x < y)

\* LIMIT limit OFFSET offset of a sequence
LimitAfterOffset(seq, limit, offset) ==
    SubSeq(seq, offset + 2, IF offset + limit + 1 < Len(seq) THEN offset + limit + 1 ELSE Len(seq))
LimitOffset(seq, limit, offset) ==
    SubSeq(seq, offset + 1, IF offset + limit < Len(seq) THEN offset + limit ELSE Len(seq))

\* get_jobs: the rows of a page
get_jobs(d, limit, offset, status) ==
    LET ids == LimitOffset(OrderByCreatedDesc(d, Matching(d, status)), limit, offset)
    IN [i \in 1..Len(ids) |-> d.jobs[ids[i]]]

\* the UPDATE of update_job_status: error_message is written only when truthy
StatusUpdateKeepsTime(row, status, error_message, t) ==
    IF Truthy(error_message)
    THEN [row EXCEPT !.status = status, !.error_message = error_message]
    ELSE [row EXCEPT !.status = status]
StatusUpdate(row, status, error_message, t) ==
    IF Truthy(error_message)
    THEN [row EXCEPT !.status = status, !.error_message = error_message, !.updated_at = t]
    ELSE [row EXCEPT !.status = status, !.updated_at = t]

\* update_job_status: an UPDATE that matches no row is no error
update_every_job_status(d, job_id, status, error_message, t, fault) ==
    IF fault
    THEN [db |-> d, ok |-> FALSE]
    ELSE [db |-> [d EXCEPT !.jobs = [k \in DOMAIN @ |->
                      StatusUpdate(@[k], status, error_message, t)]],
          ok |-> TRUE]
update_job_status(d, job_id, status, error_message, t, fault) ==
    IF fault
    THEN [db |-> d, ok |-> FALSE]
    ELSE [db |-> [d EXCEPT !.jobs = [k \in DOMAIN @ |->
                      IF k = job_id THEN StatusUpdate(@[k], status, error_message, t)
                      ELSE @[k]]],
          ok |-> TRUE]

(***************************************************************************)
(* save_job_result: one transaction of 1 + |speaker_segments| +            *)
(* |word_segments| statements and a commit.                                *)
(***************************************************************************)
\* json.dumps(result): the serialized document stored in result_data
json_dumps(result) == [kind |-> "json", doc |-> result]

\* the UPDATE of save_job_result
ResultUpdate(row, result, t) ==
    [row EXCEPT !.status = COMPLETED,
                !.processing_time = result.processing_time,
                !.audio_duration = result.duration,
                !.language = result.language,
                !.confidence = result.confidence,
                !.result_data = json_dumps(result),
                !.updated_at = t]

\* the values of one INSERT INTO speaker_segments
SpeakerRow(job_id, segment) ==
    [job_id |-> job_id,
     speaker |-> Get(segment.speaker, "UNKNOWN"),
     start_time |-> segment.start,
     end_time |-> segment.end,
     text |-> Get(segment.text, "")]

\* the values of one INSERT INTO word_segments
WordRow(job_id, word) ==
    [job_id |-> job_id,
     word |-> Get(word.word, ""),
     start_time |-> word.start,
     end_time |-> word.end,
     speaker |-> Get(word.speaker, "UNKNOWN"),
     confidence |-> word.confidence]

\* the NOT NULL columns of speaker_segments and of word_segments
SpeakerRowOk(r) == r.speaker # NULL /\ r.text # NULL
WordRowOk(r) == r.word # NULL

\* the statements of the transaction, in program order
SaveStatements(job_id, result, t) ==
    << [stmt |-> "update", job_id |-> job_id, result |-> result, t |-> t] >>
    \o [i \in 1..Len(result.speaker_segments) |->
           [stmt |-> "speaker", row |-> SpeakerRow(job_id, result.speaker_segments[i])]]
    \o [i \in 1..Len(result.word_segments) |->
           [stmt |-> "word", row |-> WordRow(job_id, result.word_segments[i])]]
    \o << [stmt |-> "commit"] >>

\* a statement raises sqlite3.IntegrityError on a NULL in a NOT NULL column
Violates(s) ==
    \/ s.stmt = "speaker" /\ ~SpeakerRowOk(s.row)
    \/ s.stmt = "word" /\ ~WordRowOk(s.row)

\* the effect of one statement on the connection's view of the database
Apply(d, s) ==
    CASE s.stmt = "update" ->
            [d EXCEPT !.jobs = [k \in DOMAIN @ |->
                IF k = s.job_id THEN ResultUpdate(@[k], s.result, s.t) ELSE @[k]]]
      [] s.stmt = "speaker" -> [d EXCEPT !.speaker_segments = Append(@, s.row)]
      [] s.stmt = "word" -> [d EXCEPT !.word_segments = Append(@, s.row)]
      [] s.stmt = "commit" -> d

\* run statements i.. on d; statement number fault raises (0: none does);
\* done is the number of statements that were executed
RECURSIVE Exec(_, _, _, _)
Exec(d, stmts, i, fault) ==
    IF i > Len(stmts) THEN [db |-> d, ok |-> TRUE, done |-> i - 1]
    ELSE IF i = fault \/ Violates(stmts[i]) THEN [db |-> d, ok |-> FALSE, done |-> i - 1]
    ELSE Exec(Apply(d, stmts[i]), stmts, i + 1, fault)

\* the statements of a failed transaction stay in the database
NoRollback(before, working) == working

\* leaving "with sqlite3.connect(...)" by an exception rolls the transaction back
Rollback(before, working) == before

\* save_job_result
save_job_result(d, job_id, result, t, fault) ==
    LET r == Exec(d, SaveStatements(job_id, result, t), 1, fault)
    IN IF r.ok THEN r ELSE [db |-> Rollback(d, r.db), ok |-> FALSE, done |-> r.done]

\* the statements of the transaction that are reached, where a fault can hit
FaultPositions(job_id, result) ==
    LET stmts == SaveStatements(job_id, result, 0)
    IN {k \in 1..Len(stmts) : \A m \in 1..(k - 1) : ~Violates(stmts[m])}

(***************************************************************************)
(* The transcription engine, seen from process_audio_job: the awaited call *)
(* returns a dict or raises. What happens inside the call (whether the     *)
(* whisperx package could be imported, whether a step raised, what the     *)
(* transcription produced, how the diarization ended) is the input env of  *)
(* transcribe_audio; the outcomes are drawn from EngineOutcomes.           *)
(***************************************************************************)
\* a raw WhisperX result of two segments: the first, the longer one, has no
\* speaker key and a word without a speaker key; the second has both labelled
RawTwo(language) ==
    [segments |-> << [start |-> 0, end |-> 7, text |-> "a", speaker |-> ABSENT,
                      words |-> << [start |-> 0, end |-> 1, word |-> "a",
                                    speaker |-> ABSENT] >>],
                     [start |-> 2, end |-> 3, text |-> "b", speaker |-> "SPEAKER_01",
                      words |-> << [start |-> 2, end |-> 3, word |-> "b",
                                    speaker |-> "SPEAKER_01"] >>] >>,
     language |-> language]

\* a raw WhisperX result with a segment whose text is None
RawNoneText(language) ==
    [segments |-> << [start |-> 0, end |-> 1, text |-> NULL, speaker |-> "SPEAKER_00",
                      words |-> << >>] >>,
     language |-> language]

\* a raw WhisperX result of an audio in which nothing is said
RawEmpty(language) == [segments |-> << >>, language |-> language]

\* _get_mock_result
MockResult(audio_path, language) ==
    [segments |-> << [start |-> 0, end |-> 5,
                      text |-> "This is a mock transcription result.",
                      speaker |-> "SPEAKER_00",
                      words |-> << [start |-> 0, end |-> 1, word |-> "This",
                                    speaker |-> "SPEAKER_00"],
                                   [start |-> 1, end |-> 2, word |-> "is",
                                    speaker |-> "SPEAKER_00"],
                                   [start |-> 2, end |-> 3, word |-> "a",
                                    speaker |-> "SPEAKER_00"],
                                   [start |-> 3, end |-> 5, word |-> "mock transcription.",
                                    speaker |-> "SPEAKER_00"] >>] >>,
     language |-> language,
     audio_path |-> audio_path]

\* WordSegment(...): word is a required str, speaker is Optional[str]
WordSegmentValid(word) == Get(word.word, "") # NULL
\* SpeakerSegment(...): text and speaker are of type str
SpeakerSegmentValid(segment) ==
    /\ Get(segment.text, "") # NULL
    /\ Get(segment.speaker, "UNKNOWN") # NULL
    /\ \A i \in 1..Len(segment.words) : WordSegmentValid(segment.words[i])

\* seg.dict() of the SpeakerSegment built from one raw segment
FormatSegmentNullWords(segment) ==
    [start |-> segment.start,
     end |-> segment.end,
     text |-> Get(segment.text, ""),
     speaker |-> Get(segment.speaker, "UNKNOWN"),
     words |-> [i \in 1..Len(segment.words) |->
                   [word |-> Get(segment.words[i].word, ""),
                    start |-> segment.words[i].start,
                    end |-> segment.words[i].end,
                    speaker |-> Get(segment.words[i].speaker, NULL),
                    confidence |-> DefaultConfidence]]]
FormatSegment(segment) ==
    [start |-> segment.start,
     end |-> segment.end,
     text |-> Get(segment.text, ""),
     speaker |-> Get(segment.speaker, "UNKNOWN"),
     words |-> [i \in 1..Len(segment.words) |->
                   [word |-> Get(segment.words[i].word, ""),
                    start |-> segment.words[i].start,
                    end |-> segment.words[i].end,
                    speaker |-> Get(segment.words[i].speaker, "UNKNOWN"),
                    confidence |-> DefaultConfidence]]]

\* the path "" (paths are records of directory, job id and extension)
EmptyPath == [dir |-> "", job_id |-> 0, ext |-> ""]

\* _format_result: a validation error is answered with the mock result
format_result(result) ==
    IF \A i \in 1..Len(result.segments) : SpeakerSegmentValid(result.segments[i])
    THEN [segments |-> [i \in 1..Len(result.segments) |-> FormatSegment(result.segments[i])],
          language |-> Get(result.language, "en"),
          audio_path |-> EmptyPath]
    ELSE MockResult(EmptyPath, "en")

\* the descriptions str(e) of the failures the engine call raises
EngineErrors == {"decode error", ""}

\* the label the fallback of a failed diarization writes
FallbackSpeaker == "SPEAKER_00"

\* the fallback after a diarization that failed or timed out: every segment
\* and every word of the result gets the label
LabelSegments(result, label) ==
    [result EXCEPT !.segments =
        [i \in 1..Len(result.segments) |-> [result.segments[i] EXCEPT !.speaker = label]]]
LabelAll(result, label) ==
    [result EXCEPT !.segments =
        [i \in 1..Len(result.segments) |->
            [result.segments[i] EXCEPT
                !.speaker = label,
                !.words = [k \in 1..Len(result.segments[i].words) |->
                              [result.segments[i].words[k] EXCEPT !.speaker = label]]]]]

\* how the diarization of a call ends
Diarizations == {"ok", "timeout", "failed"}

\* what happens inside one call of transcribe_audio: the package is missing,
\* or a step before the diarization raises, or the transcription and the
\* alignment give a result (with the labels a diarization that succeeds
\* assigns) and the diarization ends in one of its three ways
EngineEnvs(language) ==
    {[available |-> FALSE]}
    \cup {[available |-> TRUE, error |-> m] : m \in EngineErrors}
    \cup {[available |-> TRUE, error |-> ABSENT, result |-> r, diarization |-> d] :
            r \in {RawTwo(language), RawNoneText(language), RawEmpty(language)},
            d \in Diarizations}

\* transcribe_audio: the mock result without the package, the failure of a
\* step raised again, else _format_result of the result
transcribe_audio(env, audio_path, language) ==
    IF ~env.available
    THEN [kind |-> "return", result |-> MockResult(audio_path, language), env |-> env]
    ELSE IF env.error # ABSENT
    THEN [kind |-> "raise", msg |-> env.error, env |-> env]
    ELSE [kind |-> "return",
          result |-> format_result(IF env.diarization = "ok" THEN env.result
                                   ELSE LabelAll(env.result, FallbackSpeaker)),
          env |-> env]

\* the outcomes of the awaited call
EngineOutcomes(audio_path, language) ==
    {transcribe_audio(env, audio_path, language) : env \in EngineEnvs(language)}

(***************************************************************************)
(* process_audio_job after the engine call: the conversion of the engine's *)
(* dict into the result dict.                                              *)
(***************************************************************************)
\* " ".join(texts)
RECURSIVE Join(_)
Join(texts) ==
    IF Len(texts) = 0 THEN ""
    ELSE IF Len(texts) = 1 THEN texts[1]
    ELSE texts[1] \o " " \o Join(Tail(texts))

\* [seg.get("text", "") for seg in segments]
Texts(segments) == [i \in 1..Len(segments) |-> Get(segments[i].text, "")]

\* str.join raises TypeError on an item that is not a str
JoinRaises(texts) == \E i \in 1..Len(texts) : texts[i] = NULL
JoinError(texts) ==
    LET i == CHOOSE k \in 1..Len(texts) :
                 texts[k] = NULL /\ \A m \in 1..(k - 1) : texts[m] # NULL
    IN "sequence item " \o ToString(i - 1) \o ": expected str instance, NoneType found"

\* the speaker_segment dict built for one engine segment
SpeakerSegmentOf(segment) ==
    [start |-> segment.start,
     end |-> segment.end,
     text |-> Get(segment.text, ""),
     speaker |-> Get(segment.speaker, "UNKNOWN")]

\* the word_segment dict built for one word of an engine segment
WordSegmentOf(word) ==
    [start |-> word.start,
     end |-> word.end,
     word |-> Get(word.word, ""),
     speaker |-> Get(word.speaker, "UNKNOWN"),
     confidence |-> DefaultConfidence]

\* the word_segments list: the words of the segments, in order
RECURSIVE WordSegmentsOf(_)
WordSegmentsOf(segments) ==
    IF Len(segments) = 0 THEN << >>
    ELSE [i \in 1..Len(Head(segments).words) |-> WordSegmentOf(Head(segments).words[i])]
         \o WordSegmentsOf(Tail(segments))

\* max(seg.get("end", 0) for seg in segments), 0.0 when there is no segment
LastEnd(segments) ==
    IF Len(segments) = 0 THEN 0 ELSE segments[Len(segments)].end
RECURSIVE MaxEnd(_)
MaxEnd(segments) ==
    IF Len(segments) = 0 THEN 0
    ELSE LET m == MaxEnd(Tail(segments))
         IN IF Head(segments).end > m THEN Head(segments).end ELSE m

\* result_dict
ResultDict(result, processing_time) ==
    [text |-> Join(Texts(result.segments)),
     language |-> Get(result.language, "en"),
     duration |-> MaxEnd(result.segments),
     word_segments |-> WordSegmentsOf(result.segments),
     speaker_segments |-> [i \in 1..Len(result.segments) |->
                               SpeakerSegmentOf(result.segments[i])],
     confidence |-> DefaultConfidence,
     processing_time |-> processing_time]

\* partial_result, saved when the engine call raised
PartialResult(language, processing_time, msg) ==
    [text |-> "Transcription failed",
     language |-> OrEn(language),
     duration |-> 0,
     word_segments |-> << >>,
     speaker_segments |-> << >>,
     confidence |-> 0,
     processing_time |-> processing_time,
     error |-> msg]

(***************************************************************************)
(* State.                                                                  *)
(***************************************************************************)
VARIABLES
    db,      \* the SQLite database: jobs, speaker_segments, word_segments
    tasks,   \* tasks[j]: the background tasks added for job j and not yet ended
    now,     \* the clock
    faults,  \* the number of store writes that have raised so far
    last,    \* the step just taken and what it answered
    service  \* the service object main.py installs at startup

vars == << db, tasks, now, faults, last, service >>

\* a step in which n store writes raise
Raise(n) == faults + n <= MaxFaults /\ faults' = faults + n
Count(fault) == IF fault THEN 1 ELSE 0

\* the arguments background_tasks.add_task passes to process_audio_job
NewTask(job_id, audio_path, model_size, enable_diarization, enable_alignment, language) ==
    [pc |-> "scheduled",
     job_id |-> job_id,
     audio_path |-> audio_path,
     model_size |-> model_size,
     enable_diarization |-> enable_diarization,
     enable_alignment |-> enable_alignment,
     language |-> language,
     start_time |-> 0,
     raised |-> ABSENT]

\* a task is between its save of the partial result and the outer exception
\* handler: it does not await there, so no handler and no other task runs
InHandler == \E j \in JobIds : \E i \in 1..Len(tasks[j]) : tasks[j][i].pc = "except"

AddTask(ts, task) == [ts EXCEPT ![task.job_id] = Append(@, task)]

RemoveAt(seq, i) == SubSeq(seq, 1, i - 1) \o SubSeq(seq, i + 1, Len(seq))

\* the record of a step
\* the response body of a step that answers with none
NoBody == [kind |-> "none"]
\* the query parameters of a request that has none
NoQuery == [kind |-> "none"]
\* the engine input of a step that does not end an engine call
NoEngine == [kind |-> "none"]

Step(op, job_id, code) ==
    [op |-> op, job_id |-> job_id, code |-> code, path |-> "none", save |-> "none",
     done |-> 0, body |-> NoBody, ret |-> "none", before |-> NoJob, query |-> NoQuery,
     engine |-> NoEngine]

\* the service object of a deployment with DEBUG off (the default): it keeps no
\* counters and has no get_service_metrics
WhisperXService == [class |-> "WhisperXService"]

\* the service object of a deployment with DEBUG on, after __init__; in_flight
\* counts the calls of process_audio that are suspended in asyncio.sleep
MockWhisperXService ==
    [class |-> "MockWhisperXService", total_jobs |-> 0, successful_jobs |-> 0,
     failed_jobs |-> 0, processing_jobs |-> {}, in_flight |-> 0]

\* the fields of a job row that a retry or a cancel decides on and answers for
Triple(job) ==
    [status |-> job.status, error_message |-> job.error_message,
     result_data |-> job.result_data]

\* the requests of the model: filename (stem and lower-case extension), size in
\* MiB and the query parameters
Requests ==
    {[filename |-> [stem |-> "a", ext |-> "wav"], size |-> 1, model_size |-> "base",
      enable_diarization |-> FALSE, enable_alignment |-> TRUE, language |-> "fr"],
     [filename |-> [stem |-> "c", ext |-> "ogg"], size |-> 1, model_size |-> "huge",
      enable_diarization |-> TRUE, enable_alignment |-> TRUE, language |-> NULL],
     [filename |-> [stem |-> "d", ext |-> "txt"], size |-> 1, model_size |-> "base",
      enable_diarization |-> TRUE, enable_alignment |-> TRUE, language |-> NULL],
     [filename |-> [stem |-> "e", ext |-> "wav"], size |-> 101, model_size |-> "base",
      enable_diarization |-> TRUE, enable_alignment |-> TRUE, language |-> NULL]}

\* save_upload_file: uploads_dir / f"{job_id}{file_extension}"
UploadPath(job_id, ext) == [dir |-> "/tmp/whisperx-uploads", job_id |-> job_id, ext |-> ext]

\* uuid.uuid4(): an id no job has
FreshJobId == Cardinality(DOMAIN db.jobs) + 1

Init ==
    /\ db = EmptyDb
    /\ tasks = [j \in JobIds |-> << >>]
    /\ now = 0
    /\ faults = 0
    /\ last = Step("init", 0, 0)
    /\ service = WhisperXService

\* time passes
Tick ==
    /\ now < MaxTime
    /\ now' = now + 1
    /\ last' = Step("tick", 0, 0)
    /\ UNCHANGED << db, tasks, faults, service >>

(***************************************************************************)
(* POST /: create_job. The HTTPException is raised inside the try block    *)
(* and HTTPException is an Exception, so the handler's except clause       *)
(* catches it and raises a 500 whose detail is str(e).                     *)
(***************************************************************************)
\* the detail of the HTTPException(501) the handler raises
NotImplementedDetail == "Direct file upload not implemented yet. Use /upload endpoint."

\* str(e) of an HTTPException: "<status_code>: <detail>"
StrOfHTTPException(status_code, detail) == ToString(status_code) \o ": " \o detail

\* what create_job answers
CreateJobAnswer ==
    [code |-> 500,
     body |-> [kind |-> "error", detail |-> StrOfHTTPException(501, NotImplementedDetail)]]

CreateJob ==
    /\ ~InHandler
    /\ last' = [Step("create", 0, CreateJobAnswer.code) EXCEPT !.body = CreateJobAnswer.body]
    /\ UNCHANGED << db, tasks, now, faults, service >>

(***************************************************************************)
(* POST /upload: upload_and_process.                                       *)
(***************************************************************************)
\* the request is rejected before anything is stored
UploadRejects(req, fileOk) ==
    \/ req.filename.ext \notin ALLOWED_AUDIO_FORMATS
    \/ req.size > MAX_FILE_SIZE
    \/ ~fileOk

Upload(req, fileOk, fault) ==
    /\ ~InHandler
    /\ FreshJobId \in JobIds
    /\ fault => ~UploadRejects(req, fileOk)
    /\ Raise(Count(fault))
    /\ LET job_id == FreshJobId
           job_data == [job_id |-> job_id,
                        filename |-> req.filename,
                        model_size |-> req.model_size,
                        enable_diarization |-> req.enable_diarization,
                        enable_alignment |-> req.enable_alignment,
                        language |-> ABSENT]
           c == create_job(db, job_data, now, fault)
       IN IF UploadRejects(req, fileOk)
          THEN /\ last' = Step("upload", 0, 400)
               /\ UNCHANGED << db, tasks >>
          ELSE IF ~c.ok
          THEN /\ last' = Step("upload", job_id, 500)
               /\ UNCHANGED << db, tasks >>
          ELSE IF req.model_size \notin ModelSize
          \* JobResponse(model_size=...) raises a validation error, answered 500
          THEN /\ db' = c.db
               /\ last' = Step("upload", job_id, 500)
               /\ UNCHANGED tasks
          ELSE /\ db' = c.db
               /\ tasks' = AddTask(tasks,
                              NewTask(job_id, UploadPath(job_id, req.filename.ext),
                                      req.model_size, req.enable_diarization,
                                      req.enable_alignment, req.language))
               /\ last' = Step("upload", job_id, 200)
    /\ UNCHANGED << now, service >>

(***************************************************************************)
(* POST /{job_id}/retry: retry_job.                                        *)
(***************************************************************************)
\* retry also accepts a cancelled job
CanRetryOrCancelled(status) == status \in {FAILED, CANCELLED}

\* job["status"] not in ["failed"] is answered 400
CanRetry(status) == status \in {FAILED}

Retry(job_id, fault) ==
    /\ ~InHandler
    /\ fault => HasJob(db, job_id) /\ CanRetry(db.jobs[job_id].status)
    /\ Raise(Count(fault))
    /\ IF ~HasJob(db, job_id)
       THEN /\ last' = Step("retry", job_id, 404)
            /\ UNCHANGED << db, tasks >>
       ELSE LET job == db.jobs[job_id]
                u == update_job_status(db, job_id, PENDING, NULL, now, fault)
            IN IF ~CanRetry(job.status)
               THEN /\ last' = [Step("retry", job_id, 400) EXCEPT !.before = Triple(job)]
                    /\ UNCHANGED << db, tasks >>
               ELSE /\ db' = u.db
                    /\ tasks' = AddTask(tasks,
                                   NewTask(job_id, UploadPath(job_id, "mp3"),
                                           job.model_size, job.enable_diarization,
                                           job.enable_alignment, job.language))
                    /\ last' = [Step("retry", job_id, 200) EXCEPT !.before = Triple(job)]
    /\ UNCHANGED << now, service >>

(***************************************************************************)
(* DELETE /{job_id}: cancel_job.                                           *)
(***************************************************************************)
\* a cancel that accepts every status
CanCancelAny(status) == status \in JobStatus

\* job["status"] in ["completed", "failed"] is answered 400
CanCancel(status) == status \notin {COMPLETED, FAILED}

Cancel(job_id, fault) ==
    /\ ~InHandler
    /\ fault => HasJob(db, job_id) /\ CanCancel(db.jobs[job_id].status)
    /\ Raise(Count(fault))
    /\ IF ~HasJob(db, job_id)
       THEN /\ last' = Step("cancel", job_id, 404)
            /\ UNCHANGED db
       ELSE LET job == db.jobs[job_id]
                u == update_job_status(db, job_id, CANCELLED, NULL, now, fault)
            IN IF ~CanCancel(job.status)
               THEN /\ last' = [Step("cancel", job_id, 400) EXCEPT !.before = Triple(job)]
                    /\ UNCHANGED db
               ELSE /\ db' = u.db
                    /\ last' = [Step("cancel", job_id, IF u.ok THEN 200 ELSE 500)
                                   EXCEPT !.before = Triple(job)]
    /\ UNCHANGED << tasks, now, service >>

(***************************************************************************)
(* GET /{job_id} and GET /: get_job and list_jobs.                         *)
(***************************************************************************)
\* "if job.get("result_data")": None and the empty string are skipped
PayloadTruthy(payload) ==
    /\ payload.kind # "null"
    /\ ~(payload.kind = "text" /\ payload.text = "")

\* the parse of result_data: a JSONDecodeError is caught and leaves None
ParseResultData(payload) ==
    IF ~PayloadTruthy(payload) THEN NoResult
    ELSE IF payload.kind = "json" THEN payload.doc
    ELSE NoResult

\* TranscriptionResult(**doc): text, language and duration are required, the
\* segments are validated as SpeakerSegment and WordSegment, other keys are
\* allowed
TranscriptionResultValid(doc) ==
    /\ {"text", "language", "duration"} \subseteq DOMAIN doc
    /\ doc.text # NULL
    /\ doc.language # NULL
    /\ "speaker_segments" \in DOMAIN doc =>
          \A i \in 1..Len(doc.speaker_segments) :
             /\ doc.speaker_segments[i].text # NULL
             /\ doc.speaker_segments[i].speaker # NULL
    /\ "word_segments" \in DOMAIN doc =>
          \A i \in 1..Len(doc.word_segments) : doc.word_segments[i].word # NULL

\* JobResponse(...) validates: model_size is a ModelSize, result is None or a
\* TranscriptionResult
JobResponseValid(job, result) ==
    /\ job.model_size \in ModelSize
    /\ result = NoResult \/ TranscriptionResultValid(result)

\* the JobResponse built from a row
JobResponseOf(job, result) ==
    [kind |-> "job",
     job_id |-> job.job_id,
     status |-> job.status,
     created_at |-> job.created_at,
     updated_at |-> job.updated_at,
     audio_file |-> job.filename,
     model_size |-> job.model_size,
     enable_diarization |-> job.enable_diarization,
     enable_alignment |-> job.enable_alignment,
     progress |-> IF job.status = COMPLETED THEN 1 ELSE 0,
     current_stage |-> IF job.status = COMPLETED THEN "completed" ELSE "upload",
     error_message |-> job.error_message,
     result |-> result]

\* what get_job answers on database d: a validation error is answered 500
GetJobAnswer(d, job_id) ==
    LET job == get_job(d, job_id)
    IN IF job = NoJob THEN [code |-> 404, body |-> NoBody]
       ELSE LET result == ParseResultData(job.result_data)
            IN IF JobResponseValid(job, result)
               THEN [code |-> 200, body |-> JobResponseOf(job, result)]
               ELSE [code |-> 500, body |-> NoBody]

GetJob(job_id) ==
    /\ ~InHandler
    /\ LET a == GetJobAnswer(db, job_id)
       IN last' = [Step("get", job_id, a.code) EXCEPT !.body = a.body]
    /\ UNCHANGED << db, tasks, now, faults, service >>

\* the limit of the query that counts the jobs
CountLimit == 1000

\* the two flags of a listing
has_next_or_last(page, per_page, total) == (page * per_page) <= total
has_next(page, per_page, total) == (page * per_page) < total
has_prev(page) == page > 1

\* what list_jobs answers on database d: one row that does not validate makes
\* the whole listing answer 500
ListJobsAnswer(d, page, per_page, status) ==
    LET jobs == get_jobs(d, per_page, (page - 1) * per_page, status)
        total == Len(get_jobs(d, CountLimit, 0, status))
        results == [i \in 1..Len(jobs) |-> ParseResultData(jobs[i].result_data)]
    IN IF \A i \in 1..Len(jobs) : JobResponseValid(jobs[i], results[i])
       THEN [code |-> 200,
             body |-> [kind |-> "list",
                       jobs |-> [i \in 1..Len(jobs) |-> JobResponseOf(jobs[i], results[i])],
                       total |-> total,
                       page |-> page,
                       per_page |-> per_page,
                       has_next |-> has_next(page, per_page, total),
                       has_prev |-> has_prev(page)]]
       ELSE [code |-> 500, body |-> NoBody]

ListJobs(page, per_page, status) ==
    /\ ~InHandler
    /\ LET a == ListJobsAnswer(db, page, per_page, status)
       IN last' = [Step("list", 0, a.code)
                   EXCEPT !.body = a.body,
                          !.query = [kind |-> "list", page |-> page,
                                     per_page |-> per_page, status |-> status]]
    /\ UNCHANGED << db, tasks, now, faults, service >>

\* the query parameters of the listings of the model
Pages == 1..MaxPage
DefaultPerPage == 10
PerPages == {1, DefaultPerPage}
StatusFilters == {NULL} \cup JobStatus

(***************************************************************************)
(* The metrics endpoints. They read the counters of the service object,    *)
(* not the store; a rate is kept as the fraction num/den it was computed   *)
(* from.                                                                   *)
(***************************************************************************)
\* Python's n / d
Divide(n, d) ==
    IF d = 0 THEN [kind |-> "raise", error |-> "ZeroDivisionError"]
    ELSE [kind |-> "float", num |-> n, den |-> d]

\* max(total, 1)
AtLeastOne(total) == IF total > 1 THEN total ELSE 1

\* successful / max(total, 1)
success_rate_unguarded(successful, total) == Divide(successful, total)
success_rate(successful, total) == Divide(successful, AtLeastOne(total))

\* service.get_service_metrics(): an attribute the WhisperXService lacks
get_service_metrics(s) ==
    IF s.class = "WhisperXService"
    THEN [kind |-> "raise", error |-> "AttributeError"]
    ELSE LET rate == success_rate(s.successful_jobs, s.total_jobs)
         IN IF rate.kind = "raise" THEN rate
            ELSE [kind |-> "dict",
                  total_jobs |-> s.total_jobs,
                  successful_jobs |-> s.successful_jobs,
                  failed_jobs |-> s.failed_jobs,
                  success_rate |-> rate,
                  active_jobs |-> Cardinality(s.processing_jobs)]

\* the estimate get_service_metrics (the endpoint) reports as average time
AverageProcessingTime == 30

\* GET /metrics/
GetMetricsAnswer(s) ==
    LET m == get_service_metrics(s)
    IN IF m.kind = "raise" THEN [code |-> 500, body |-> NoBody]
       ELSE [code |-> 200,
             body |-> [kind |-> "metrics",
                       total_jobs |-> m.total_jobs,
                       successful_jobs |-> m.successful_jobs,
                       failed_jobs |-> m.failed_jobs,
                       average_processing_time |-> AverageProcessingTime,
                       current_active_jobs |-> m.active_jobs]]

\* GET /metrics/performance: the rates are computed by the endpoint
GetPerformanceMetricsAnswer(s) ==
    LET m == get_service_metrics(s)
    IN IF m.kind = "raise" THEN [code |-> 500, body |-> NoBody]
       ELSE LET success == success_rate(m.successful_jobs, m.total_jobs)
                failure == success_rate(m.failed_jobs, m.total_jobs)
            IN IF success.kind = "raise" \/ failure.kind = "raise"
               THEN [code |-> 500, body |-> NoBody]
               ELSE [code |-> 200,
                     body |-> [kind |-> "performance",
                               total_jobs |-> m.total_jobs,
                               successful_jobs |-> m.successful_jobs,
                               failed_jobs |-> m.failed_jobs,
                               success_rate |-> success,
                               failure_rate |-> failure,
                               active_jobs |-> m.active_jobs]]

\* GET /metrics/jobs: the rate is the one the service computed
GetJobMetricsAnswer(s) ==
    LET m == get_service_metrics(s)
    IN IF m.kind = "raise" THEN [code |-> 500, body |-> NoBody]
       ELSE [code |-> 200,
             body |-> [kind |-> "job_statistics",
                       total_jobs |-> m.total_jobs,
                       successful_jobs |-> m.successful_jobs,
                       failed_jobs |-> m.failed_jobs,
                       active_jobs |-> m.active_jobs,
                       success_rate |-> m.success_rate]]

GetMetrics ==
    /\ ~InHandler
    /\ LET a == GetMetricsAnswer(service)
       IN last' = [Step("metrics", 0, a.code) EXCEPT !.body = a.body]
    /\ UNCHANGED << db, tasks, now, faults, service >>

GetPerformanceMetrics ==
    /\ ~InHandler
    /\ LET a == GetPerformanceMetricsAnswer(service)
       IN last' = [Step("performance", 0, a.code) EXCEPT !.body = a.body]
    /\ UNCHANGED << db, tasks, now, faults, service >>

GetJobMetrics ==
    /\ ~InHandler
    /\ LET a == GetJobMetricsAnswer(service)
       IN last' = [Step("job_statistics", 0, a.code) EXCEPT !.body = a.body]
    /\ UNCHANGED << db, tasks, now, faults, service >>

(***************************************************************************)
(* The background task process_audio_job.                                  *)
(***************************************************************************)
\* up to the await: the job is marked processing (the outcome of the write is
\* not looked at), the start time is taken and the engine is called
TaskStart(j, i, fault) ==
    /\ ~InHandler
    /\ i \in 1..Len(tasks[j])
    /\ tasks[j][i].pc = "scheduled"
    /\ Raise(Count(fault))
    /\ db' = update_job_status(db, j, PROCESSING, NULL, now, fault).db
    /\ tasks' = [tasks EXCEPT ![j][i].pc = "engine", ![j][i].start_time = now]
    /\ last' = Step("start", j, 0)
    /\ UNCHANGED << now, service >>

\* the except branch of the engine call: the partial result is saved, then the
\* failure is raised again and reaches the outer handler
AfterRaise(d, task, msg, t, saveFault) ==
    LET partial == PartialResult(task.language, t - task.start_time, msg)
        s == save_job_result(d, task.job_id, partial, t, saveFault)
    IN [db |-> s.db, path |-> "engine_error", save |-> IF s.ok THEN "ok" ELSE "fail",
        done |-> s.done, raised |-> msg]

\* the engine returned: the result is converted and saved; a fault of the
\* conversion reaches the outer handler, a False from save_job_result is logged
AfterReturn(d, task, result, t, saveFault) ==
    IF JoinRaises(Texts(result.segments))
    THEN [db |-> d, path |-> "convert_error", save |-> "none", done |-> 0,
          raised |-> JoinError(Texts(result.segments))]
    ELSE LET s == save_job_result(d, task.job_id,
                                  ResultDict(result, t - task.start_time), t, saveFault)
         IN [db |-> s.db, path |-> "result", save |-> IF s.ok THEN "ok" ELSE "fail",
             done |-> s.done, raised |-> ABSENT]

\* the statement numbers at which a fault can hit the save of the step (0: no
\* fault): none when the conversion raises before the save
SaveFaults(task, outcome) ==
    {0} \cup
    IF outcome.kind = "raise"
    THEN FaultPositions(task.job_id, PartialResult(task.language, 0, outcome.msg))
    ELSE IF JoinRaises(Texts(outcome.result.segments)) THEN {}
    ELSE FaultPositions(task.job_id, ResultDict(outcome.result, 0))

\* after the await, up to the end of the task or to the entry of the outer
\* exception handler
TaskFinish(j, i, outcome, saveFault) ==
    /\ ~InHandler
    /\ i \in 1..Len(tasks[j])
    /\ tasks[j][i].pc = "engine"
    /\ saveFault \in SaveFaults(tasks[j][i], outcome)
    /\ Raise(Count(saveFault > 0))
    /\ LET task == tasks[j][i]
           r == IF outcome.kind = "raise"
                THEN AfterRaise(db, task, outcome.msg, now, saveFault)
                ELSE AfterReturn(db, task, outcome.result, now, saveFault)
       IN /\ db' = r.db
          /\ last' = [Step("finish", j, 0) EXCEPT !.path = r.path, !.save = r.save,
                                                  !.done = r.done, !.engine = outcome.env]
          /\ tasks' = IF r.raised = ABSENT
                      THEN [tasks EXCEPT ![j] = RemoveAt(@, i)]
                      ELSE [tasks EXCEPT ![j][i].pc = "except", ![j][i].raised = r.raised]
    /\ UNCHANGED << now, service >>

\* the outer exception handler: update_job_status(job_id, "failed", str(e))
TaskExcept(j, i, fault) ==
    /\ i \in 1..Len(tasks[j])
    /\ tasks[j][i].pc = "except"
    /\ Raise(Count(fault))
    /\ db' = update_job_status(db, j, FAILED, tasks[j][i].raised, now, fault).db
    /\ tasks' = [tasks EXCEPT ![j] = RemoveAt(@, i)]
    /\ last' = Step("except", j, 0)
    /\ UNCHANGED << now, service >>

Next ==
    \/ Tick
    \/ CreateJob
    \/ \E req \in Requests, fileOk \in BOOLEAN, fault \in BOOLEAN : Upload(req, fileOk, fault)
    \/ \E j \in JobIds, fault \in BOOLEAN : Retry(j, fault)
    \/ \E j \in JobIds, fault \in BOOLEAN : Cancel(j, fault)
    \/ \E j \in JobIds : GetJob(j)
    \/ \E page \in Pages, status \in StatusFilters : ListJobs(page, DefaultPerPage, status)
    \/ GetMetrics
    \/ \E j \in JobIds : \E i \in 1..Len(tasks[j]), fault \in BOOLEAN : TaskStart(j, i, fault)
    \/ \E j \in JobIds : \E i \in 1..Len(tasks[j]) :
         \E outcome \in EngineOutcomes(tasks[j][i].audio_path, OrEn(tasks[j][i].language)) :
            \E saveFault \in SaveFaults(tasks[j][i], outcome) :
               TaskFinish(j, i, outcome, saveFault)
    \/ \E j \in JobIds : \E i \in 1..Len(tasks[j]), fault \in BOOLEAN : TaskExcept(j, i, fault)

Spec == Init /\ [][Next]_vars

\* the behaviours in which no store write raises inside sqlite3
NextNoFault ==
    \/ Tick
    \/ CreateJob
    \/ \E req \in Requests, fileOk \in BOOLEAN : Upload(req, fileOk, FALSE)
    \/ \E j \in JobIds : Retry(j, FALSE)
    \/ \E j \in JobIds : Cancel(j, FALSE)
    \/ \E j \in JobIds : GetJob(j)
    \/ \E page \in Pages, status \in StatusFilters : ListJobs(page, DefaultPerPage, status)
    \/ GetMetrics
    \/ \E j \in JobIds : \E i \in 1..Len(tasks[j]) : TaskStart(j, i, FALSE)
    \/ \E j \in JobIds : \E i \in 1..Len(tasks[j]) :
         \E outcome \in EngineOutcomes(tasks[j][i].audio_path, OrEn(tasks[j][i].language)) :
            TaskFinish(j, i, outcome, 0)
    \/ \E j \in JobIds : \E i \in 1..Len(tasks[j]) : TaskExcept(j, i, FALSE)

SpecNoFault == Init /\ [][NextNoFault]_vars

(***************************************************************************)
(* The job store on its own: DatabaseManager called directly, with any     *)
(* arguments, as a caller other than the endpoints may do. last.ret is the *)
(* value the call returned.                                                *)
(***************************************************************************)
\* the job ids of the direct calls: those of the jobs and one that is never
\* created
StoreJobIds == 1..(MaxJobs + 1)

\* the job_data of the direct calls: with and without the optional keys
StoreJobData ==
    {[job_id |-> j, filename |-> [stem |-> "a", ext |-> "wav"], model_size |-> "base",
      enable_diarization |-> FALSE, enable_alignment |-> TRUE, language |-> "fr"] :
        j \in JobIds}
    \cup
    {[job_id |-> j, filename |-> [stem |-> "b", ext |-> "mp3"], model_size |-> ABSENT,
      enable_diarization |-> TRUE, enable_alignment |-> TRUE, language |-> ABSENT] :
        j \in JobIds}

\* the error_message arguments of the direct calls
StoreMessages == {NULL, "", "decode error"}

\* the results of the direct calls
StoreResults ==
    {ResultDict(format_result(RawTwo("en")), 1), PartialResult("fr", 0, "decode error")}

Bool(b) == IF b THEN "True" ELSE "False"

StoreCreate(job_data, fault) ==
    /\ Raise(Count(fault))
    /\ LET c == create_job(db, job_data, now, fault)
       IN /\ db' = c.db
          /\ last' = [Step("create_job", job_data.job_id, 0) EXCEPT !.ret = Bool(c.ok)]
    /\ UNCHANGED << tasks, now, service >>

StoreUpdate(job_id, status, error_message, fault) ==
    /\ Raise(Count(fault))
    /\ LET u == update_job_status(db, job_id, status, error_message, now, fault)
       IN /\ db' = u.db
          /\ last' = [Step("update_job_status", job_id, 0)
                      EXCEPT !.ret = Bool(u.ok),
                             !.query = [kind |-> "update", status |-> status,
                                        error_message |-> error_message]]
    /\ UNCHANGED << tasks, now, service >>

StoreSave(job_id, result, saveFault) ==
    /\ Len(db.speaker_segments) < MaxRows
    /\ saveFault \in {0} \cup FaultPositions(job_id, result)
    /\ Raise(Count(saveFault > 0))
    /\ LET r == save_job_result(db, job_id, result, now, saveFault)
       IN /\ db' = r.db
          /\ last' = [Step("save_job_result", job_id, 0) EXCEPT
                         !.ret = Bool(r.ok), !.done = r.done]
    /\ UNCHANGED << tasks, now, service >>

NextStore ==
    \/ Tick
    \/ \E job_data \in StoreJobData, fault \in BOOLEAN : StoreCreate(job_data, fault)
    \/ \E job_id \in StoreJobIds, status \in JobStatus, error_message \in StoreMessages,
          fault \in BOOLEAN : StoreUpdate(job_id, status, error_message, fault)
    \/ \E job_id \in StoreJobIds, result \in StoreResults :
          \E saveFault \in {0} \cup FaultPositions(job_id, result) :
             StoreSave(job_id, result, saveFault)

SpecStore == Init /\ [][NextStore]_vars

(***************************************************************************)
(* update_job_status called directly on a store of two jobs: job 1 was     *)
(* completed by a save of a result with segments, job 2 was marked failed  *)
(* with a message.                                                         *)
(***************************************************************************)
\* the store after create_job of both jobs, save_job_result for job 1 and
\* update_job_status(2, "failed", "decode error"), in that order at time 0
TwoJobsDb ==
    LET data(j) == [job_id |-> j, filename |-> [stem |-> "a", ext |-> "wav"],
                    model_size |-> "base", enable_diarization |-> FALSE,
                    enable_alignment |-> TRUE, language |-> "fr"]
        d1 == create_job(EmptyDb, data(1), 0, FALSE).db
        d2 == create_job(d1, data(2), 0, FALSE).db
        d3 == save_job_result(d2, 1, ResultDict(format_result(RawTwo("en")), 1), 0, 0).db
    IN update_job_status(d3, 2, FAILED, "decode error", 0, FALSE).db

InitFrame ==
    /\ db = TwoJobsDb
    /\ tasks = [j \in JobIds |-> << >>]
    /\ now = 0
    /\ faults = 0
    /\ last = Step("init", 0, 0)
    /\ service = WhisperXService

NextFrame ==
    \/ Tick
    \/ \E job_id \in StoreJobIds, status \in JobStatus, error_message \in StoreMessages,
          fault \in BOOLEAN : StoreUpdate(job_id, status, error_message, fault)

SpecFrame == InitFrame /\ [][NextFrame]_vars

(***************************************************************************)
(* The read path over a database file that the service finds at start:     *)
(* whisperx_jobs.db outlives the process, and its completed jobs may carry *)
(* a result_data written by an earlier version or by another tool.         *)
(***************************************************************************)
\* the jobs of the file
LegacyJobIds == 1..(MaxJobs + 1)

\* the result_data values of the file: none, an empty string, a text that is
\* not JSON, a JSON document of another shape, and a result of this version
LegacyPayloads ==
    {NoResult,
     [kind |-> "text", text |-> ""],
     [kind |-> "text", text |-> "{not json"],
     [kind |-> "json", doc |-> [transcript |-> "old"]],
     json_dumps(ResultDict(format_result(RawTwo("en")), 1))}

\* the row of a completed job of the file
LegacyRow(job_id, payload) ==
    [job_id |-> job_id, status |-> COMPLETED, created_at |-> job_id,
     updated_at |-> job_id, filename |-> [stem |-> "a", ext |-> "wav"],
     model_size |-> "base", enable_diarization |-> TRUE, enable_alignment |-> TRUE,
     language |-> "en", processing_time |-> 1, audio_duration |-> 7,
     confidence |-> DefaultConfidence, error_message |-> NULL, result_data |-> payload]

InitLegacy ==
    /\ \E payloads \in [LegacyJobIds -> LegacyPayloads] :
          db = [EmptyDb EXCEPT !.jobs = [j \in LegacyJobIds |-> LegacyRow(j, payloads[j])]]
    /\ tasks = [j \in JobIds |-> << >>]
    /\ now = 0
    /\ faults = 0
    /\ last = Step("init", 0, 0)
    /\ service = WhisperXService

NextLegacy ==
    \/ \E j \in LegacyJobIds : GetJob(j)
    \/ \E page \in Pages, per_page \in PerPages, status \in StatusFilters :
          ListJobs(page, per_page, status)

SpecLegacy == InitLegacy /\ [][NextLegacy]_vars

(***************************************************************************)
(* The listing over a store that holds many jobs: the jobs of n uploads,   *)
(* two to a clock value, in every status.                                  *)
(***************************************************************************)
\* the numbers of jobs of the stores: none, a few, the 25 of three pages of
\* ten, and one more than the counting query asks for
ListSizes == {0, 1, 3, 11, 25, CountLimit + 1}

\* the status of the j-th job
ListStatus(j) ==
    CASE j % 5 = 0 -> COMPLETED
      [] j % 5 = 1 -> PENDING
      [] j % 5 = 2 -> PROCESSING
      [] j % 5 = 3 -> FAILED
      [] j % 5 = 4 -> CANCELLED

\* the row of the j-th job
ListRow(j) ==
    [NewJobRow([job_id |-> j, filename |-> [stem |-> "a", ext |-> "wav"],
                model_size |-> "base", enable_diarization |-> FALSE,
                enable_alignment |-> TRUE, language |-> ABSENT], j \div 2)
     EXCEPT !.status = ListStatus(j),
            !.error_message = IF ListStatus(j) = FAILED THEN "decode error" ELSE NULL]

InitList ==
    /\ \E n \in ListSizes :
          db = [EmptyDb EXCEPT !.jobs = [j \in 1..n |-> ListRow(j)]]
    /\ tasks = [j \in JobIds |-> << >>]
    /\ now = 0
    /\ faults = 0
    /\ last = Step("init", 0, 0)
    /\ service = WhisperXService

NextList ==
    \E page \in Pages, per_page \in PerPages, status \in StatusFilters :
       ListJobs(page, per_page, status)

SpecList == InitList /\ [][NextList]_vars

(***************************************************************************)
(* The mock service of a DEBUG deployment, its process_audio called        *)
(* directly, and the metrics endpoints that read its counters.             *)
(***************************************************************************)
InitMock ==
    /\ db = EmptyDb
    /\ tasks = [j \in JobIds |-> << >>]
    /\ now = 0
    /\ faults = 0
    /\ last = Step("init", 0, 0)
    /\ service = MockWhisperXService

\* process_audio up to its first asyncio.sleep
ProcessAudioStart ==
    /\ service.total_jobs < MaxCalls
    /\ service' = [service EXCEPT !.total_jobs = @ + 1, !.in_flight = @ + 1]
    /\ last' = Step("process_audio", 0, 0)
    /\ UNCHANGED << db, tasks, now, faults >>

\* process_audio from its last asyncio.sleep to its return
ProcessAudioReturn ==
    /\ service.in_flight > 0
    /\ service' = [service EXCEPT !.successful_jobs = @ + 1, !.in_flight = @ - 1]
    /\ last' = [Step("process_audio", 0, 0) EXCEPT !.ret = "result"]
    /\ UNCHANGED << db, tasks, now, faults >>

\* process_audio when its progress_callback raises
ProcessAudioRaise ==
    /\ service.in_flight > 0
    /\ service' = [service EXCEPT !.failed_jobs = @ + 1, !.in_flight = @ - 1]
    /\ last' = [Step("process_audio", 0, 0) EXCEPT !.ret = "raise"]
    /\ UNCHANGED << db, tasks, now, faults >>

NextMock ==
    \/ ProcessAudioStart
    \/ ProcessAudioReturn
    \/ ProcessAudioRaise
    \/ GetMetrics
    \/ GetPerformanceMetrics
    \/ GetJobMetrics

SpecMock == InitMock /\ [][NextMock]_vars

(***************************************************************************)
(* Views of the state used by the properties.                              *)
(***************************************************************************)
Stored == DOMAIN db.jobs
StatusOf(j) == db.jobs[j].status

\* the rows of a segment table that belong to job j
RowsOf(table, j) == SelectSeq(table, LAMBDA row : row.job_id = j)
HasSegmentRows(d, j) ==
    RowsOf(d.speaker_segments, j) # << >> \/ RowsOf(d.word_segments, j) # << >>

\* the status changes the lifecycle allows
LegalTransitions ==
    {<< PENDING, PROCESSING >>, << PROCESSING, COMPLETED >>, << PROCESSING, FAILED >>,
     << FAILED, PENDING >>, << PENDING, CANCELLED >>, << PROCESSING, CANCELLED >>}

(***************************************************************************)
(* C1. Every change of a job's stored status is one of the six legal       *)
(* transitions. The code makes others: a task that was added before a      *)
(* cancel marks the cancelled job processing, and a failed engine call     *)
(* stores completed (the partial result) and then failed.                  *)
(***************************************************************************)
C1_OnlyLegalStatusChanges ==
    [][\A j \in Stored :
          db'.jobs[j].status # db.jobs[j].status
              => << db.jobs[j].status, db'.jobs[j].status >> \in LegalTransitions]_vars

(***************************************************************************)
(* C2. A cancelled job stays cancelled, and gets no result payload and no  *)
(* segment rows afterwards. The code's background task never looks at the  *)
(* status, so it overwrites cancelled.                                     *)
(***************************************************************************)
C2_CancelledIsSticky ==
    [][\A j \in Stored :
          db.jobs[j].status = CANCELLED
              => /\ db'.jobs[j].status = CANCELLED
                 /\ db'.jobs[j].result_data = db.jobs[j].result_data
                 /\ RowsOf(db'.speaker_segments, j) = RowsOf(db.speaker_segments, j)
                 /\ RowsOf(db'.word_segments, j) = RowsOf(db.word_segments, j)]_vars

(***************************************************************************)
(* C3. No background task ends and leaves its job processing: a job that   *)
(* is processing has a task that has not ended. The code only logs a False *)
(* from save_job_result, and does not look at the outcome of the write in  *)
(* the exception handler.                                                  *)
(***************************************************************************)
C3_NoJobLeftProcessing ==
    \A j \in Stored : StatusOf(j) = PROCESSING => tasks[j] # << >>

(***************************************************************************)
(* C4. retry on a stored job answers 200 only when the job is failed; on a *)
(* job in any other status it answers 400, changes nothing in the store    *)
(* and adds no task.                                                       *)
(***************************************************************************)
C4_RetryOnlyFromFailed ==
    [][\A j \in Stored :
          last'.op = "retry" /\ last'.job_id = j
              => /\ last'.code = 200 => db.jobs[j].status = FAILED
                 /\ db.jobs[j].status # FAILED
                        => last'.code = 400 /\ db' = db /\ tasks' = tasks]_vars

\* a retry of a cancelled job was answered 400
C4_Witness ==
    /\ last.op = "retry" /\ last.code = 400
    /\ last.job_id \in Stored /\ StatusOf(last.job_id) = CANCELLED

(***************************************************************************)
(* C5. cancel on a stored job answers 200 only when the job is pending or  *)
(* processing, and then the job is cancelled; on a completed, failed or    *)
(* cancelled job it answers 400 and changes nothing. In the code a         *)
(* cancelled job is cancelled again with 200.                              *)
(***************************************************************************)
C5_CancelOnlyFromActive ==
    [][\A j \in Stored :
          last'.op = "cancel" /\ last'.job_id = j
              => /\ last'.code = 200
                        => /\ db.jobs[j].status \in {PENDING, PROCESSING}
                           /\ db'.jobs[j].status = CANCELLED
                 /\ db.jobs[j].status \in {COMPLETED, FAILED, CANCELLED}
                        => last'.code = 400 /\ db' = db]_vars

(***************************************************************************)
(* C6. A completed job has a result payload and no error_message. The code *)
(* never clears error_message, so a job that completes after a failure and *)
(* a retry keeps the message of the failure.                               *)
(***************************************************************************)
C6_CompletedHasResultAndNoError ==
    \A j \in Stored :
        StatusOf(j) = COMPLETED
            => db.jobs[j].result_data # NoResult /\ db.jobs[j].error_message = NULL

(***************************************************************************)
(* C7. A failed job has an error_message. update_job_status writes the     *)
(* message only when it is truthy, so a failure whose description is the   *)
(* empty string leaves the column NULL.                                    *)
(***************************************************************************)
C7_FailedHasError ==
    \A j \in Stored : StatusOf(j) = FAILED => db.jobs[j].error_message # NULL

(***************************************************************************)
(* C8. A pending or processing job has neither a result payload nor an     *)
(* error_message. retry resets only the status, so both are left over from *)
(* the failed attempt.                                                     *)
(***************************************************************************)
C8_ActiveHasNeither ==
    \A j \in Stored :
        StatusOf(j) \in {PENDING, PROCESSING}
            => db.jobs[j].result_data = NoResult /\ db.jobs[j].error_message = NULL

(***************************************************************************)
(* C9. save_job_result is all or nothing. In the step of a task that calls *)
(* it: when it returns True the job row is completed with the payload and  *)
(* the segment tables have grown by exactly the payload's speaker and word *)
(* rows; when it returns False the database is as before the call.         *)
(***************************************************************************)
C9_SaveAllOrNothing ==
    [][last'.op = "finish" /\ last'.save # "none"
          => LET j == last'.job_id
                 doc == db'.jobs[j].result_data.doc
             IN IF last'.save = "fail"
                THEN db' = db
                ELSE /\ db'.jobs[j].status = COMPLETED
                     /\ db'.jobs[j].result_data # NoResult
                     /\ db'.jobs[j].processing_time = doc.processing_time
                     /\ db'.jobs[j].audio_duration = doc.duration
                     /\ db'.jobs[j].language = doc.language
                     /\ db'.jobs[j].confidence = doc.confidence
                     /\ db'.speaker_segments = db.speaker_segments
                            \o [i \in 1..Len(doc.speaker_segments) |->
                                   SpeakerRow(j, doc.speaker_segments[i])]
                     /\ db'.word_segments = db.word_segments
                            \o [i \in 1..Len(doc.word_segments) |->
                                   WordRow(j, doc.word_segments[i])]]_vars

\* a save returned False after its update and an insert had been executed
C9_Witness == last.op = "finish" /\ last.save = "fail" /\ last.done >= 2

(***************************************************************************)
(* C10. No pending job has speaker or word segment rows.                   *)
(***************************************************************************)
C10_PendingHasNoSegments ==
    \A j \in Stored : StatusOf(j) = PENDING => ~HasSegmentRows(db, j)

(***************************************************************************)
(* C11. At most one background task exists for a job at any time, and a    *)
(* retry of a job that is pending or processing is answered with a client  *)
(* error and adds no task. In the code a retry whose status write raised   *)
(* leaves the job failed and adds a task all the same, so that a second    *)
(* retry adds a second task.                                               *)
(***************************************************************************)
C11_OneTaskPerJob ==
    [][/\ \A j \in JobIds : Len(tasks'[j]) <= 1
       /\ \A j \in Stored :
             (last'.op = "retry" /\ last'.job_id = j
                 /\ StatusOf(j) \in {PENDING, PROCESSING})
             => last'.code \in 400..499 /\ tasks' = tasks]_vars

(***************************************************************************)
(* C12. When the engine call of a task raised with description m, then     *)
(* after the task's last step GET /{job_id} answers the job as failed with *)
(* error_message m, and the task has added no other task. The code does    *)
(* not store an empty m: update_job_status writes error_message only when  *)
(* it is truthy.                                                           *)
(***************************************************************************)
C12_EngineFailureIsRecorded ==
    [][\A j \in JobIds : \A i \in 1..Len(tasks[j]) :
          (tasks[j][i].pc = "except" /\ last'.op = "except")
          => /\ GetJobAnswer(db', j).code = 200
             /\ GetJobAnswer(db', j).body.status = FAILED
             /\ GetJobAnswer(db', j).body.error_message = tasks[j][i].raised
             /\ Len(tasks'[j]) = Len(tasks[j]) - 1]_vars

(***************************************************************************)
(* C13. A job that has just been created reads back as given: in the step  *)
(* that inserts the row of job j, GET /{job_id} on the new database        *)
(* answers 200 with that job_id, status pending, the filename, model size  *)
(* and flags of the request, progress 0, no result and no error_message.   *)
(* The code inserts the row before the model size is validated, and the    *)
(* row of a model size outside ModelSize cannot be rendered.               *)
(***************************************************************************)
C13_CreateThenGet ==
    [][\A j \in JobIds :
          (j \notin Stored /\ j \in DOMAIN db'.jobs)
          => LET a == GetJobAnswer(db', j)
                 req == CHOOSE r \in Requests : r.filename = db'.jobs[j].filename
             IN /\ a.code = 200
                /\ a.body.job_id = j
                /\ a.body.status = PENDING
                /\ a.body.audio_file = req.filename
                /\ a.body.model_size = req.model_size
                /\ a.body.enable_diarization = req.enable_diarization
                /\ a.body.enable_alignment = req.enable_alignment
                /\ a.body.progress = 0
                /\ a.body.result = NoResult
                /\ a.body.error_message = NULL]_vars

(***************************************************************************)
(* C14. create_job with a job_id that is stored returns False and leaves   *)
(* the database (the job row and the segment rows) as it was.              *)
(***************************************************************************)
C14_CreateExistingFails ==
    [][(last'.op = "create_job" /\ last'.job_id \in Stored)
       => last'.ret = "False" /\ db' = db]_vars

\* a create_job of a stored job that is no longer pending and has segment rows
\* returned False, with no fault of the store
C14_Witness ==
    /\ last.op = "create_job"
    /\ last.ret = "False"
    /\ faults = 0
    /\ last.job_id \in Stored
    /\ StatusOf(last.job_id) = COMPLETED
    /\ HasSegmentRows(db, last.job_id)

(***************************************************************************)
(* C15. update_job_status with a job_id that is not stored does not return *)
(* True and leaves the database as it was. In the code the UPDATE matches  *)
(* no row, which is no error in SQLite, and the call returns True.         *)
(***************************************************************************)
C15_UpdateMissingFails ==
    [][(last'.op = "update_job_status" /\ last'.job_id \notin Stored)
       => last'.ret = "False" /\ db' = db]_vars

C17_WriteFailureIsAnswered500 ==
    [][(last'.op \in {"upload", "retry", "cancel"} /\ faults' > faults)
       => last'.code = 500 /\ tasks' = tasks]_vars

(***************************************************************************)
(* C18. A retry and a cancel of the same job that run one right after the  *)
(* other, in either order, leave the job's status, error_message and       *)
(* result as one of the two serial orders of the two operations does,      *)
(* computed from the job as it was before the first of them. Each handler  *)
(* reads, checks and writes without an await in between, so the two orders *)
(* are the only interleavings.                                             *)
(***************************************************************************)
\* what a retry, and a cancel, on its own makes of the three fields
SerialRetry(b) == IF b.status = FAILED THEN [b EXCEPT !.status = PENDING] ELSE b
SerialCancel(b) ==
    IF b.status \in {PENDING, PROCESSING, CANCELLED}
    THEN [b EXCEPT !.status = CANCELLED] ELSE b

C18_RetryCancelSerial ==
    [][\A j \in Stored :
          (/\ last.job_id = j /\ last'.job_id = j
           /\ last.before # NoJob
           /\ \/ last.op = "retry" /\ last'.op = "cancel"
              \/ last.op = "cancel" /\ last'.op = "retry")
          => Triple(db'.jobs[j]) \in {SerialCancel(SerialRetry(last.before)),
                                      SerialRetry(SerialCancel(last.before))}]_vars

\* a cancel has acted on a job that a retry had just reset: the job was pending
\* with the error_message of its failure and the retry's task not yet started
C18_Witness ==
    /\ last.op = "cancel"
    /\ last.code = 200
    /\ last.before # NoJob
    /\ last.before.status = PENDING
    /\ last.before.error_message # NULL
    /\ StatusOf(last.job_id) = CANCELLED
    /\ \E i \in 1..Len(tasks[last.job_id]) : tasks[last.job_id][i].pc = "scheduled"

(***************************************************************************)
(* C19. A retry that is answered 200, and whose write did not raise,       *)
(* leaves the job pending and adds one task whose model size, flags and    *)
(* language are those of the upload request of the job. The code's upload  *)
(* does not store the language: the column is only written by              *)
(* save_job_result, and the retry passes what the column holds.            *)
(***************************************************************************)
C19_RetryUsesOriginalOptions ==
    [][\A j \in Stored :
          (last'.op = "retry" /\ last'.job_id = j /\ last'.code = 200 /\ faults' = faults)
          => LET req == CHOOSE r \in Requests : r.filename = db.jobs[j].filename
             IN /\ db'.jobs[j].status = PENDING
                /\ Len(tasks'[j]) = Len(tasks[j]) + 1
                /\ LET t == tasks'[j][Len(tasks'[j])]
                   IN /\ t.model_size = req.model_size
                      /\ t.enable_diarization = req.enable_diarization
                      /\ t.enable_alignment = req.enable_alignment
                      /\ t.language = req.language]_vars

(***************************************************************************)
(* C20. No stored result payload makes a read fail. A GET of a stored job  *)
(* answers 200, with result null when the payload is not a well-formed     *)
(* result; a listing answers 200 and renders every job of its page the     *)
(* same way. In the code a payload that parses but is not a                *)
(* TranscriptionResult raises in JobResponse(...), which is answered 500,  *)
(* for the job and for every listing that has the job on its page.         *)
(***************************************************************************)
\* the payload is a result of the schema
PayloadWellFormed(payload) ==
    payload.kind = "json" /\ TranscriptionResultValid(payload.doc)

C20_ReadsSurviveBadPayloads ==
    /\ (last.op = "get" /\ last.job_id \in Stored)
       => /\ last.code = 200
          /\ ~PayloadWellFormed(db.jobs[last.job_id].result_data)
                => last.body.result = NoResult
    /\ last.op = "list"
       => /\ last.code = 200
          /\ \A i \in 1..Len(last.body.jobs) :
                ~PayloadWellFormed(db.jobs[last.body.jobs[i].job_id].result_data)
                   => last.body.jobs[i].result = NoResult

(***************************************************************************)
(* C21. A listing of page >= 1 with per_page >= 1 answers                  *)
(* has_next = (page * per_page < total) and has_prev = (page > 1), the     *)
(* pages counted from 1 and total being the total of the same answer. On   *)
(* an empty store the listing of page 1 with per_page 10 answers 200 with  *)
(* jobs = [], total = 0, page = 1, per_page = 10 and both flags false.     *)
(***************************************************************************)
C21_PagingFlags ==
    last.op = "list"
    => /\ last.code = 200
          => /\ last.body.page = last.query.page
             /\ last.body.per_page = last.query.per_page
             /\ last.body.has_next
                   = (last.query.page * last.query.per_page < last.body.total)
             /\ last.body.has_prev = (last.query.page > 1)
       /\ (Stored = {} /\ last.query.page = 1 /\ last.query.per_page = 10)
          => /\ last.code = 200
             /\ last.body.jobs = << >>
             /\ last.body.total = 0
             /\ last.body.page = 1
             /\ last.body.per_page = 10
             /\ ~last.body.has_next
             /\ ~last.body.has_prev

\* a listing whose page ends exactly at the last job: there is no next page
C21_Witness ==
    /\ last.op = "list"
    /\ last.code = 200
    /\ last.body.total > 0
    /\ last.query.page * last.query.per_page = last.body.total
    /\ ~last.body.has_next

\* the default listing of an empty store
C21_WitnessEmpty ==
    /\ last.op = "list"
    /\ last.code = 200
    /\ Stored = {}
    /\ last.query.page = 1
    /\ last.query.per_page = 10
    /\ last.query.status = NULL

(***************************************************************************)
(* C22. A listing returns the jobs at the positions                        *)
(* (page-1)*per_page+1 .. page*per_page of the jobs that match the status  *)
(* filter, newest created_at first: the page holds                         *)
(* min(per_page, max(0, n - (page-1)*per_page)) jobs of the n that match,  *)
(* each job once, every one matching, in non-increasing created_at, and    *)
(* the job at position k has fewer than k matching jobs newer than it and  *)
(* at least k that are as new or newer (the order among jobs of equal      *)
(* created_at is left open).                                               *)
(***************************************************************************)
\* the number of jobs of the store that match the filter
MatchCount(status) == Cardinality(Matching(db, status))

\* the number of matching jobs created after time t, and at or after time t
NewerThan(status, t) ==
    Cardinality({k \in Matching(db, status) : db.jobs[k].created_at > t})
AsNewAs(status, t) ==
    Cardinality({k \in Matching(db, status) : db.jobs[k].created_at >= t})

C22_PageHoldsItsPositions ==
    (last.op = "list" /\ last.code = 200)
    => LET q == last.query
           jobs == last.body.jobs
           offset == (q.page - 1) * q.per_page
           rest == IF MatchCount(q.status) > offset
                   THEN MatchCount(q.status) - offset ELSE 0
       IN /\ Len(jobs) = IF q.per_page < rest THEN q.per_page ELSE rest
          /\ \A i \in 1..Len(jobs) :
                /\ jobs[i].job_id \in Matching(db, q.status)
                /\ jobs[i].created_at = db.jobs[jobs[i].job_id].created_at
                /\ NewerThan(q.status, jobs[i].created_at) < offset + i
                /\ AsNewAs(q.status, jobs[i].created_at) >= offset + i
          /\ \A i, k \in 1..Len(jobs) :
                i < k => /\ jobs[i].job_id # jobs[k].job_id
                         /\ jobs[i].created_at >= jobs[k].created_at

\* the third page of ten of 25 jobs holds five of them
C22_Witness ==
    /\ last.op = "list"
    /\ last.code = 200
    /\ last.query.status = NULL
    /\ last.query.page = 3
    /\ last.query.per_page = 10
    /\ Cardinality(Stored) = 25
    /\ Len(last.body.jobs) = 5

(***************************************************************************)
(* C23. The total of a listing is the number of all jobs of the store      *)
(* that match the status filter, whatever the page and per_page and        *)
(* however many jobs are stored. In the code the total is the length of a  *)
(* second page query with limit 1000, so it stops at 1000.                 *)
(***************************************************************************)
C23_TotalCountsAllMatches ==
    (last.op = "list" /\ last.code = 200)
    => last.body.total = MatchCount(last.query.status)

(***************************************************************************)
(* C24. The metrics GetMetrics reports are derived from the job store:     *)
(* total_jobs is the number of job rows, successful_jobs the number of     *)
(* COMPLETED jobs, failed_jobs the number of FAILED jobs and the active    *)
(* count the number of jobs in progress. In the code the endpoint asks the *)
(* service object for its counters and never reads the store               *)
(* (get_job_stats has no caller).                                          *)
(***************************************************************************)
\* the number of stored jobs in one of the statuses
CountIn(statuses) == Cardinality({j \in Stored : db.jobs[j].status \in statuses})

C24_MetricsDerivedFromStore ==
    last.op = "metrics"
    => /\ last.code = 200
       /\ last.body.total_jobs = Cardinality(Stored)
       /\ last.body.successful_jobs = CountIn({COMPLETED})
       /\ last.body.failed_jobs = CountIn({FAILED})
       /\ last.body.current_active_jobs = CountIn({PROCESSING})

(***************************************************************************)
(* C25. The success rate is successful / max(total, 1): computing it       *)
(* never divides by zero, it is 0 when total_jobs = 0 and                  *)
(* successful_jobs / total_jobs otherwise. This holds for the rate the     *)
(* mock service computes (reported by /metrics/jobs) and for the one       *)
(* /metrics/performance computes from the service's counters.              *)
(***************************************************************************)
C25_SuccessRate ==
    (last.op \in {"performance", "job_statistics"})
    => /\ last.code = 200
       /\ last.body.success_rate.kind = "float"
       /\ last.body.success_rate.den # 0
       /\ service.total_jobs = 0 => last.body.success_rate.num = 0
       /\ service.total_jobs > 0
          => last.body.success_rate.num * service.total_jobs
                = service.successful_jobs * last.body.success_rate.den

\* the rate is asked for before any job was counted
C25_Witness ==
    /\ last.op \in {"performance", "job_statistics"}
    /\ last.code = 200
    /\ service.total_jobs = 0

\* the rate is asked for when some jobs of those counted have succeeded
C25_WitnessSome ==
    /\ last.op = "performance"
    /\ last.code = 200
    /\ service.total_jobs > service.successful_jobs
    /\ service.successful_jobs > 0

(***************************************************************************)
(* C26. When a step of transcribe fails (the engine is unavailable, a      *)
(* step before the diarization raises, or the engine's output cannot be    *)
(* formatted), transcribe raises a failure that carries the cause; it      *)
(* returns no transcript, neither an empty nor a substitute one. In the    *)
(* code the call returns the mock result when the whisperx package is      *)
(* missing and when _format_result raises.                                 *)
(***************************************************************************)
\* the result handed to _format_result in a call whose steps did not raise
Handed(env) ==
    IF env.diarization = "ok" THEN env.result ELSE LabelAll(env.result, FallbackSpeaker)

\* the output of the engine cannot be formatted
FormatFails(env) ==
    \E i \in 1..Len(Handed(env).segments) : ~SpeakerSegmentValid(Handed(env).segments[i])

\* a step of the call failed
EngineFailed(env) ==
    \/ ~env.available
    \/ env.error # ABSENT
    \/ FormatFails(env)

C26_EngineFailureIsRaised ==
    (last.op = "finish" /\ EngineFailed(last.engine))
    => /\ last.path = "engine_error"
       /\ (last.engine.available /\ last.engine.error # ABSENT)
          => \E i \in 1..Len(tasks[last.job_id]) :
                /\ tasks[last.job_id][i].pc = "except"
                /\ tasks[last.job_id][i].raised = last.engine.error

(***************************************************************************)
(* C27. When the diarization fails or times out and no other step of       *)
(* transcribe fails, transcribe returns the primary transcript with one    *)
(* and the same fallback speaker label on every segment and every word,    *)
(* and the job ends COMPLETED: the saved result has the texts and times of *)
(* the transcription and a single speaker label.                           *)
(***************************************************************************)
\* the speaker labels of a saved result
SpeakersOf(doc) ==
    {doc.speaker_segments[i].speaker : i \in 1..Len(doc.speaker_segments)}
    \cup {doc.word_segments[i].speaker : i \in 1..Len(doc.word_segments)}

\* the speaker labels of the segment rows of job j
RowSpeakersOf(j) ==
    {RowsOf(db.speaker_segments, j)[i].speaker : i \in 1..Len(RowsOf(db.speaker_segments, j))}
    \cup {RowsOf(db.word_segments, j)[i].speaker : i \in 1..Len(RowsOf(db.word_segments, j))}

\* the diarization of the call failed or timed out, and nothing else failed
Degraded(env) ==
    /\ env.available
    /\ env.error = ABSENT
    /\ env.diarization \in {"timeout", "failed"}
    /\ ~FormatFails(env)

SavedLabelled ==
    /\ last.op = "finish"
    /\ last.path = "result"
    /\ last.save = "ok"
    /\ last.engine.available
    /\ last.engine.diarization = "ok"
    /\ ~FormatFails(last.engine)

C28_NoNullSpeaker ==
    /\ \A j \in Stored :
          /\ db.jobs[j].result_data.kind = "json"
                => SpeakersOf(db.jobs[j].result_data.doc) \cap {NULL, ABSENT} = {}
          /\ RowSpeakersOf(j) \cap {NULL, ABSENT} = {}
    /\ SavedLabelled
       => LET doc == db.jobs[last.job_id].result_data.doc
              segments == last.engine.result.segments
          IN /\ \A i \in 1..Len(segments) :
                   doc.speaker_segments[i].speaker
                      = IF segments[i].speaker = ABSENT THEN "UNKNOWN"
                        ELSE segments[i].speaker
             /\ \A i \in 1..Len(segments) : \A k \in 1..Len(segments[i].words) :
                   segments[i].words[k].speaker = ABSENT
                      => \E m \in 1..Len(doc.word_segments) :
                            /\ doc.word_segments[m].word = segments[i].words[k].word
                            /\ doc.word_segments[m].speaker = "UNKNOWN"

\* a saved result with an entry the engine left unlabelled
C28_Witness ==
    /\ SavedLabelled
    /\ \E i \in 1..Len(last.engine.result.segments) :
          last.engine.result.segments[i].speaker = ABSENT
    /\ "UNKNOWN" \in RowSpeakersOf(last.job_id)

(***************************************************************************)
(* C29. Every update_job_status and save_job_result that succeeds on a     *)
(* stored job sets the job's updated_at to the time of the call; with a    *)
(* clock that never goes back, no step decreases the updated_at of a job.  *)
(***************************************************************************)
C29_UpdatedAtIsRefreshed ==
    [][/\ (/\ last'.op \in {"update_job_status", "save_job_result"}
           /\ last'.ret = "True"
           /\ last'.job_id \in DOMAIN db.jobs)
          => db'.jobs[last'.job_id].updated_at = now
       /\ \A j \in DOMAIN db.jobs :
             /\ j \in DOMAIN db'.jobs
             /\ db'.jobs[j].updated_at >= db.jobs[j].updated_at]_vars

\* a status update of a job, later than the job's creation
C29_Witness ==
    /\ last.op = "update_job_status"
    /\ last.ret = "True"
    /\ last.job_id \in Stored
    /\ db.jobs[last.job_id].created_at < now
    /\ db.jobs[last.job_id].updated_at = now

(***************************************************************************)
(* C30. POST on the jobs collection (create_job, creation without          *)
(* /upload) answers 501 with a detail that contains "not implemented"; it  *)
(* creates no job and schedules nothing. In the code the 501 is caught by  *)
(* the handler's own except clause and answered as a 500.                  *)
(***************************************************************************)
\* the details that say the creation is not implemented
NotImplementedDetails ==
    {NotImplementedDetail, StrOfHTTPException(501, NotImplementedDetail)}

C30_CreateAnswers501 ==
    [][last'.op = "create"
       => /\ last'.code = 501
          /\ last'.body.kind = "error"
          /\ last'.body.detail \in NotImplementedDetails
          /\ db' = db
          /\ tasks' = tasks]_vars

(***************************************************************************)
(* C31. When the engine call raises, the task takes the job from           *)
(* processing to failed by update_job_status alone: save_job_result is not *)
(* called, and the failed job has no result payload. In the code the       *)
(* except branch of the engine call saves a partial result with            *)
(* save_job_result, which marks the job completed and stores the payload,  *)
(* before the outer handler marks it failed.                               *)
(***************************************************************************)
C31_EngineFailureSkipsSave ==
    /\ (last.op = "finish" /\ last.path = "engine_error")
       => /\ last.save = "none"
          /\ StatusOf(last.job_id) # COMPLETED
    /\ (last.op = "except" /\ StatusOf(last.job_id) = FAILED)
       => db.jobs[last.job_id].result_data = NoResult

(***************************************************************************)
(* C32. For an engine result with the segments s1..sn, the result the task *)
(* saves has for text the texts of the segments joined in order, one       *)
(* speaker segment for each engine segment in the same order, for word     *)
(* segments the words of the segments one segment after the other, and for *)
(* duration the greatest end time of the segments, 0 when there is none.   *)
(***************************************************************************)
\* the segments transcribe_audio returned in the call the task just ended
ReturnedSegments == transcribe_audio(last.engine, EmptyPath, "en").result.segments

\* the words of the segments, one segment after the other
RECURSIVE WordsInOrder(_)
WordsInOrder(segments) ==
    IF segments = << >> THEN << >>
    ELSE Head(segments).words \o WordsInOrder(Tail(segments))

\* the task just saved the result of an engine call that returned
SavedReturned ==
    /\ last.op = "finish"
    /\ last.path = "result"
    /\ last.save = "ok"

C32_ResultIsFlattened ==
    SavedReturned
    => LET segments == ReturnedSegments
           words == WordsInOrder(segments)
           doc == db.jobs[last.job_id].result_data.doc
       IN /\ doc.text = Join([i \in 1..Len(segments) |-> segments[i].text])
          /\ Len(doc.speaker_segments) = Len(segments)
          /\ \A i \in 1..Len(segments) :
                /\ doc.speaker_segments[i].text = segments[i].text
                /\ doc.speaker_segments[i].start = segments[i].start
                /\ doc.speaker_segments[i].end = segments[i].end
                /\ doc.speaker_segments[i].speaker = segments[i].speaker
          /\ Len(doc.word_segments) = Len(words)
          /\ \A i \in 1..Len(words) :
                /\ doc.word_segments[i].word = words[i].word
                /\ doc.word_segments[i].start = words[i].start
                /\ doc.word_segments[i].end = words[i].end
                /\ doc.word_segments[i].speaker = words[i].speaker
          /\ \A i \in 1..Len(segments) : doc.duration >= segments[i].end
          /\ segments = << >> => doc.duration = 0
          /\ segments # << >> => \E i \in 1..Len(segments) : doc.duration = segments[i].end

\* a saved result of two segments of which the first ends last
C32_Witness ==
    /\ SavedReturned
    /\ Len(ReturnedSegments) = 2
    /\ ReturnedSegments[1].end > ReturnedSegments[2].end
    /\ Len(db.jobs[last.job_id].result_data.doc.word_segments) = 2

\* a saved result of an engine result without segments
C32_WitnessEmpty ==
    /\ SavedReturned
    /\ ReturnedSegments = << >>

(***************************************************************************)
(* C33. In every state of the store the speaker and word segment rows of a *)
(* job are the speaker and word segments of the job's stored result        *)
(* payload, each once, and a job without a payload has no segment rows.    *)
(* save_job_result inserts the rows of the result it saves and deletes     *)
(* none, so a second save of a job adds its rows to those of the first.    *)
(***************************************************************************)
C33_RowsMatchPayload ==
    \A j \in Stored :
        IF db.jobs[j].result_data = NoResult
        THEN ~HasSegmentRows(db, j)
        ELSE db.jobs[j].result_data.kind = "json"
             => LET doc == db.jobs[j].result_data.doc
                IN /\ RowsOf(db.speaker_segments, j)
                        = [i \in 1..Len(doc.speaker_segments) |->
                              SpeakerRow(j, doc.speaker_segments[i])]
                   /\ RowsOf(db.word_segments, j)
                        = [i \in 1..Len(doc.word_segments) |->
                              WordRow(j, doc.word_segments[i])]

(***************************************************************************)
(* C34. Whenever an upload leaves a job row in the store, it has also      *)
(* added a background task for that job and answered the job to the        *)
(* caller: no request, whatever its model_size or other options, creates a *)
(* row that stays pending with nothing scheduled. In the code the row is   *)
(* inserted before JobResponse(...) validates model_size, and the task is  *)
(* added after it.                                                         *)
(***************************************************************************)
C34_UploadedRowIsScheduled ==
    [][\A j \in JobIds :
          (last'.op = "upload" /\ j \notin DOMAIN db.jobs /\ j \in DOMAIN db'.jobs)
          => /\ last'.code = 200
             /\ last'.job_id = j
             /\ Len(tasks'[j]) = Len(tasks[j]) + 1]_vars

(***************************************************************************)
(* C35. Every job row written through the API has a model_size of the      *)
(* enumeration and a status of the enumeration, so that every stored job   *)
(* can be rendered: a GET of a stored job and every listing answer 200.    *)
(* In the code model_size is a free string of the upload request and is    *)
(* stored as given.                                                        *)
(***************************************************************************)
C35_StoredRowsAreRenderable ==
    /\ \A j \in Stored :
          /\ db.jobs[j].model_size \in ModelSize
          /\ db.jobs[j].status \in JobStatus
    /\ (last.op = "get" /\ last.job_id \in Stored) => last.code = 200
    /\ last.op = "list" => last.code = 200

(***************************************************************************)
(* C36. The task a successful retry adds receives the audio path under     *)
(* which the upload of the job was stored, the path the first task         *)
(* received, for every allowed extension. In the code the retry builds the *)
(* path from the job id and the extension mp3.                             *)
(***************************************************************************)
C36_RetryUsesUploadPath ==
    [][\A j \in Stored :
          (last'.op = "retry" /\ last'.job_id = j /\ last'.code = 200)
          => /\ Len(tasks'[j]) = Len(tasks[j]) + 1
             /\ tasks'[j][Len(tasks'[j])].audio_path
                   = UploadPath(j, db.jobs[j].filename.ext)]_vars

(***************************************************************************)
(* C37. Every speaker and word segment row belongs to a job of the store:  *)
(* save_job_result called with a job_id that is not stored returns False   *)
(* and inserts no row. In the code the UPDATE matches no row, which is no  *)
(* error, the foreign keys are not enforced (no PRAGMA foreign_keys), the  *)
(* INSERTs go through and the call returns True.                           *)
(***************************************************************************)
C37_SegmentRowsHaveAJob ==
    /\ \A i \in 1..Len(db.speaker_segments) : db.speaker_segments[i].job_id \in Stored
    /\ \A i \in 1..Len(db.word_segments) : db.word_segments[i].job_id \in Stored
    /\ (last.op = "save_job_result" /\ last.job_id \notin Stored) => last.ret = "False"

(***************************************************************************)
(* C38. update_job_status changes of the target job only the status, the   *)
(* updated_at and, when a non-empty error_message is passed, the           *)
(* error_message; it leaves every other column of that job, all segment    *)
(* rows and every other job as they were, and a call without an            *)
(* error_message keeps the stored one.                                     *)
(***************************************************************************)
C38_UpdateStatusFrame ==
    [][last'.op = "update_job_status"
       => /\ DOMAIN db'.jobs = DOMAIN db.jobs
          /\ db'.speaker_segments = db.speaker_segments
          /\ db'.word_segments = db.word_segments
          /\ \A j \in DOMAIN db.jobs :
                IF j = last'.job_id /\ last'.ret = "True"
                THEN db'.jobs[j]
                        = [db.jobs[j] EXCEPT
                              !.status = last'.query.status,
                              !.updated_at = now,
                              !.error_message =
                                  IF last'.query.error_message \in {NULL, ""}
                                  THEN @ ELSE last'.query.error_message]
                ELSE db'.jobs[j] = db.jobs[j]]_vars

\* a status update without a message on the job that has a message, while the
\* other job has its payload and its segment rows
C38_Witness ==
    /\ last.op = "update_job_status"
    /\ last.ret = "True"
    /\ last.job_id = 2
    /\ last.query.error_message = NULL
    /\ db.jobs[2].error_message = "decode error"
    /\ db.jobs[2].status = PENDING
    /\ db.jobs[1].result_data # NoResult
    /\ HasSegmentRows(db, 1)

====
